---- MODULE Spec2Model ----
(***************************************************************************)
(* Model of resultpp::internal::ResultImpl<T> (src/lib/ResultImpl.hxx).    *)
(*                                                                         *)
(* The combinators Map (error branch), MapErr and Or build their result    *)
(* from a single std::string argument, which only instantiates when the    *)
(* payload type is constructible from std::string; the model therefore     *)
(* takes T = U = std::string.  A std::string is a finite sequence of       *)
(* characters; the two instances of the model are named "a" and "b".       *)
(*                                                                         *)
(* Data() is declared to return T& from a const member function, which a   *)
(* compiler rejects once the member is instantiated; it is modelled as     *)
(* what its body states, a read of _type.                                  *)
(***************************************************************************)
EXTENDS Naturals, Sequences, FiniteSets

\* Longest string drawn as a payload, a message or an argument.
MaxLen == 1

Alphabet == {"p", "q"}

Strings == UNION {[1..n -> Alphabet] : n \in 0..MaxLen}

Ids == {"a", "b"}

\* Mapping functions handed to Map / MapErr, recovery functions handed to OrElse.
Fns == {"identity", "twice", "constant"}

RecoverFns == {"recover", "rethrow", "asdata", "relabel"}

None == "-"

VARIABLES objs, pre, last, ret, cmp, calls

vars == <<objs, pre, last, ret, cmp, calls>>

----------------------------------------------------------------------------
(* Construction *)

\* ResultImpl() = default: both members default-constructed.
ResultImplDefault == [type |-> <<>>, message |-> <<>>]

\* ResultImpl(type, msg)
ResultImpl(type, msg) == [type |-> type, message |-> msg]

\* ResultImpl(type): the message parameter takes its default "".
ResultImpl1(type) == ResultImpl(type, <<>>)

Constructed ==
    {ResultImplDefault}
        \cup {ResultImpl1(v) : v \in Strings}
        \cup {ResultImpl(v, m) : v \in Strings, m \in Strings}

----------------------------------------------------------------------------
(* Accessors and state predicates *)

Data(o) == o.type

Message(o) == o.message

IsOk(o) == Len(o.message) = 0

IsErrMutant(o) == ~(Len(o.type) = 0)

IsErr(o) == ~(Len(o.message) = 0)

----------------------------------------------------------------------------
(* Caller-supplied functions *)

ApplyFn(f, s) ==
    CASE f = "identity" -> s
      [] f = "twice"    -> s \o s
      [] f = "constant" -> <<"p">>

ApplyRecover(f, msg) ==
    CASE f = "recover" -> ResultImpl1(<<"q">>)
      [] f = "rethrow" -> ResultImpl(<<>>, msg)
      [] f = "asdata"  -> ResultImpl1(msg)
      [] f = "relabel" -> ResultImpl(msg, <<"p">>)

----------------------------------------------------------------------------
(* Member functions as operators on the instance(s) they touch *)

\* operator=(const std::string &)
AssignMessageMutant(o, m) == [type |-> <<>>, message |-> m]

AssignMessage(o, m) == [o EXCEPT !.message = m]

\* operator<<(const T &)
ShiftIn(o, d) == [o EXCEPT !.type = d]

\* SetData(T &&) / SetData(const T &)
SetDataOf(o, d) == [o EXCEPT !.type = d]

\* operator=(const resultimpl_t &): std::move of a const member copies.
AssignFromMutant(os, i, j) ==
    IF i = j THEN os ELSE [os EXCEPT ![i] = [@ EXCEPT !.type = os[j].type]]

AssignFrom(os, i, j) ==
    IF i = j
        THEN os
        ELSE [os EXCEPT ![i] = [type |-> os[j].type, message |-> os[j].message]]

\* operator== / operator!=
EqualsMutant(o1, o2) == o1.type = o2.type /\ o1.message = o2.message

Equals(o1, o2) == o1.type = o2.type

NotEquals(o1, o2) == o1.type # o2.type

\* friend swap
SwapOfMutant(os, i, j) ==
    [k \in Ids |->
        IF k = i THEN [type |-> os[j].type, message |-> os[i].message]
        ELSE IF k = j THEN [type |-> os[i].type, message |-> os[j].message]
        ELSE os[k]]

SwapOf(os, i, j) ==
    LET t1 == [os EXCEPT ![i].type = os[j].type, ![j].type = os[i].type]
    IN  [t1 EXCEPT ![i].message = t1[j].message, ![j].message = t1[i].message]

\* Map: the result and the arguments func was called with.
MapOfMutant(o, f) ==
    IF IsOk(o)
        THEN [ret |-> ResultImpl1(Data(o)), calls |-> <<>>]
        ELSE [ret |-> ResultImpl1(Message(o)), calls |-> <<>>]

MapOf(o, f) ==
    IF IsOk(o)
        THEN [ret |-> ResultImpl1(ApplyFn(f, Data(o))), calls |-> <<Data(o)>>]
        ELSE [ret |-> ResultImpl1(Message(o)), calls |-> <<>>]

MapErrOf(o, f) ==
    IF IsOk(o)
        THEN [ret |-> ResultImpl1(ApplyFn(f, Message(o))), calls |-> <<Message(o)>>]
        ELSE [ret |-> ResultImpl1(Data(o)), calls |-> <<>>]

OrOf(o, other) ==
    IF IsOk(o) THEN ResultImpl1(Data(o))
    ELSE IF IsErr(o) THEN ResultImpl1(Message(other))
    ELSE ResultImpl1(Message(o))

OrElseOfMutant(o, f) ==
    [ret |-> ApplyRecover(f, Message(o)), calls |-> <<Message(o)>>]

OrElseOf(o, f) ==
    IF IsOk(o)
        THEN [ret |-> ResultImpl1(Data(o)), calls |-> <<>>]
        ELSE [ret |-> ApplyRecover(f, Message(o)), calls |-> <<Message(o)>>]

----------------------------------------------------------------------------
(* State machine: two instances and a caller applying one operation a step. *)
(* pre is the pair of instances before the last operation, last names that  *)
(* operation and its arguments; ret, cmp and calls hold what it returned    *)
(* (an instance or a bool) and the arguments its callback was invoked with, *)
(* and are reset by every operation.                                        *)

Op(op, self, other, arg, fn) ==
    [op |-> op, self |-> self, other |-> other, arg |-> arg, fn |-> fn]

Init ==
    /\ objs \in [Ids -> Constructed]
    /\ pre = objs
    /\ last = Op("construct", None, None, <<>>, None)
    /\ ret = ResultImplDefault
    /\ cmp = FALSE
    /\ calls = <<>>

SetMessage ==
    \E i \in Ids, m \in Strings :
        /\ objs' = [objs EXCEPT ![i] = AssignMessage(objs[i], m)]
        /\ pre' = objs
        /\ last' = Op("SetMessage", i, None, m, None)
        /\ ret' = ResultImplDefault
        /\ cmp' = FALSE
        /\ calls' = <<>>

SetData ==
    \E i \in Ids, d \in Strings :
        /\ objs' = [objs EXCEPT ![i] = SetDataOf(objs[i], d)]
        /\ pre' = objs
        /\ last' = Op("SetData", i, None, d, None)
        /\ ret' = ResultImplDefault
        /\ cmp' = FALSE
        /\ calls' = <<>>

ShiftLeft ==
    \E i \in Ids, d \in Strings :
        /\ objs' = [objs EXCEPT ![i] = ShiftIn(objs[i], d)]
        /\ pre' = objs
        /\ last' = Op("ShiftLeft", i, None, d, None)
        /\ ret' = ShiftIn(objs[i], d)
        /\ cmp' = FALSE
        /\ calls' = <<>>

ReplaceFrom ==
    \E i \in Ids, j \in Ids :
        /\ objs' = AssignFrom(objs, i, j)
        /\ pre' = objs
        /\ last' = Op("ReplaceFrom", i, j, <<>>, None)
        /\ ret' = ResultImplDefault
        /\ cmp' = FALSE
        /\ calls' = <<>>

Swap ==
    \E i \in Ids, j \in Ids :
        /\ objs' = SwapOf(objs, i, j)
        /\ pre' = objs
        /\ last' = Op("Swap", i, j, <<>>, None)
        /\ ret' = ResultImplDefault
        /\ cmp' = FALSE
        /\ calls' = <<>>

CallEquals ==
    \E i \in Ids, j \in Ids :
        /\ cmp' = Equals(objs[i], objs[j])
        /\ pre' = objs
        /\ last' = Op("Equals", i, j, <<>>, None)
        /\ ret' = ResultImplDefault
        /\ calls' = <<>>
        /\ UNCHANGED objs

CallNotEquals ==
    \E i \in Ids, j \in Ids :
        /\ cmp' = NotEquals(objs[i], objs[j])
        /\ pre' = objs
        /\ last' = Op("NotEquals", i, j, <<>>, None)
        /\ ret' = ResultImplDefault
        /\ calls' = <<>>
        /\ UNCHANGED objs

Map ==
    \E i \in Ids, f \in Fns :
        /\ ret' = MapOf(objs[i], f).ret
        /\ calls' = MapOf(objs[i], f).calls
        /\ pre' = objs
        /\ last' = Op("Map", i, None, <<>>, f)
        /\ cmp' = FALSE
        /\ UNCHANGED objs

MapErr ==
    \E i \in Ids, f \in Fns :
        /\ ret' = MapErrOf(objs[i], f).ret
        /\ calls' = MapErrOf(objs[i], f).calls
        /\ pre' = objs
        /\ last' = Op("MapErr", i, None, <<>>, f)
        /\ cmp' = FALSE
        /\ UNCHANGED objs

Or ==
    \E i \in Ids, j \in Ids :
        /\ ret' = OrOf(objs[i], objs[j])
        /\ calls' = <<>>
        /\ pre' = objs
        /\ last' = Op("Or", i, j, <<>>, None)
        /\ cmp' = FALSE
        /\ UNCHANGED objs

OrElse ==
    \E i \in Ids, f \in RecoverFns :
        /\ ret' = OrElseOf(objs[i], f).ret
        /\ calls' = OrElseOf(objs[i], f).calls
        /\ pre' = objs
        /\ last' = Op("OrElse", i, None, <<>>, f)
        /\ cmp' = FALSE
        /\ UNCHANGED objs

Next ==
    \/ SetMessage
    \/ SetData
    \/ ShiftLeft
    \/ ReplaceFrom
    \/ Swap
    \/ CallEquals
    \/ CallNotEquals
    \/ Map
    \/ MapErr
    \/ Or
    \/ OrElse

Spec == Init /\ [][Next]_vars

----------------------------------------------------------------------------
(* Properties *)

Self == objs[last.self]

Other == objs[last.other]

\* C1: in every state reached from the constructors by SetMessage, SetData,
\* ReplaceFrom and Swap, IsOk() holds exactly when the stored message is the
\* empty string and IsErr() is its negation, for both instances.
C1_StateComplementary ==
    \A i \in Ids :
        /\ IsOk(objs[i]) <=> (objs[i].message = <<>>)
        /\ IsErr(objs[i]) <=> ~IsOk(objs[i])

C1_Witness ==
    /\ last.op = "Swap"
    /\ last.self # last.other
    /\ IsErr(Self) /\ ~IsOk(Self)
    /\ IsOk(Other) /\ ~IsErr(Other)
    /\ Data(Self) = <<>>
    /\ Data(Other) # <<>>

\* C2: SetData(v) and operator<< leave Message() unchanged and store v;
\* SetMessage(m) leaves Data() unchanged and stores m; a SetMessage of a
\* non-empty text followed by SetMessage("") on the same instance ends in
\* the ok state with the Data() it had before the first of the two.
C2_MutatorFrame ==
    [][ /\ last'.op \in {"SetData", "ShiftLeft"} =>
            /\ Message(objs'[last'.self]) = Message(objs[last'.self])
            /\ Data(objs'[last'.self]) = last'.arg
        /\ last'.op = "SetMessage" =>
            /\ Data(objs'[last'.self]) = Data(objs[last'.self])
            /\ Message(objs'[last'.self]) = last'.arg
        /\ ( /\ last.op = "SetMessage" /\ last.arg # <<>>
             /\ last'.op = "SetMessage" /\ last'.arg = <<>>
             /\ last'.self = last.self ) =>
            /\ IsErr(objs[last.self])
            /\ IsOk(objs'[last.self])
            /\ Data(objs'[last.self]) = Data(pre[last.self])
      ]_vars

C2_Witness ==
    /\ last.op = "SetMessage"
    /\ last.arg = <<>>
    /\ IsErr(pre[last.self])
    /\ IsOk(Self)
    /\ Data(Self) # <<>>
    /\ Data(Self) = Data(pre[last.self])

\* C3: Map on an instance in the error state returns an outcome in the error
\* state with the receiver's message and the default value of the mapped
\* type, and never applies fn.
C3_MapErrorPassthrough ==
    (last.op = "Map" /\ IsErr(Self)) =>
        /\ IsErr(ret)
        /\ Message(ret) = Message(Self)
        /\ Data(ret) = <<>>
        /\ calls = <<>>

\* C4: Map on an instance in the ok state returns an outcome in the ok state
\* whose Data() is fn applied to the receiver's Data().
C4_MapOk ==
    (last.op = "Map" /\ IsOk(Self)) =>
        /\ IsOk(ret)
        /\ Data(ret) = ApplyFn(last.fn, Data(Self))

C4_Witness ==
    /\ last.op = "Map"
    /\ last.fn = "twice"
    /\ IsOk(Self)
    /\ Data(Self) # <<>>
    /\ Data(ret) = Data(Self) \o Data(Self)
    /\ IsOk(ret)

\* C5: OrElse on an ok instance returns an ok outcome with the receiver's
\* Data() and never invokes fn; on an error instance it invokes fn exactly
\* once, with the receiver's message, and returns exactly what fn produced.
C5_OrElse ==
    last.op = "OrElse" =>
        IF IsOk(Self)
            THEN /\ IsOk(ret)
                 /\ Data(ret) = Data(Self)
                 /\ calls = <<>>
            ELSE /\ calls = <<Message(Self)>>
                 /\ ret = ApplyRecover(last.fn, Message(Self))

C5_Witness ==
    /\ last.op = "OrElse"
    /\ last.fn = "relabel"
    /\ IsErr(Self)
    /\ Len(calls) = 1
    /\ Data(ret) = Message(Self)
    /\ Message(ret) = <<"p">>

\* C6: Or on a receiver in the error state returns an outcome whose
\* Message() equals other.Message(), hence in the error state whenever other
\* is.
C6_OrCarriesOtherMessage ==
    (last.op = "Or" /\ IsErr(Self)) =>
        /\ Message(ret) = Message(Other)
        /\ IsErr(Other) => IsErr(ret)

\* C7: Equals and NotEquals compare the stored value only: equal values give
\* Equals true and NotEquals false whatever the two messages, different
\* values give Equals false and NotEquals true.
C7_EqualityIgnoresMessage ==
    /\ last.op = "Equals" => (cmp <=> (Data(Self) = Data(Other)))
    /\ last.op = "NotEquals" => (cmp <=> (Data(Self) # Data(Other)))

C7_Witness ==
    /\ last.op = "Equals"
    /\ cmp
    /\ Message(Self) = <<>>
    /\ Message(Other) # <<>>

\* C8: after a.ReplaceFrom(b) with a and b distinct, a holds b's value and
\* message and b is unchanged; a.ReplaceFrom(a) leaves a (and b) unchanged.
C8_ReplaceFrom ==
    last.op = "ReplaceFrom" =>
        IF last.self # last.other
            THEN /\ Data(Self) = Data(pre[last.other])
                 /\ Message(Self) = Message(pre[last.other])
                 /\ Other = pre[last.other]
            ELSE objs = pre

C8_Witness ==
    /\ last.op = "ReplaceFrom"
    /\ last.self # last.other
    /\ pre[last.self].message # pre[last.other].message
    /\ pre[last.self].type # pre[last.other].type
    /\ Self = Other

\* C9: after Swap(a, b) each instance holds the other's original value and
\* message, so the ok/error states are exchanged with the values, and a
\* second Swap(a, b) restores both instances.
C9_Swap ==
    /\ [](last.op = "Swap" =>
            /\ Self = pre[last.other]
            /\ Other = pre[last.self]
            /\ IsOk(Self) <=> IsOk(pre[last.other])
            /\ IsOk(Other) <=> IsOk(pre[last.self]))
    /\ [][ ( /\ last.op = "Swap" /\ last'.op = "Swap"
             /\ {last'.self, last'.other} = {last.self, last.other} ) =>
            objs' = pre ]_vars

C9_Witness ==
    /\ last.op = "Swap"
    /\ last.self # last.other
    /\ IsOk(pre[last.self]) /\ IsErr(pre[last.other])
    /\ IsErr(Self) /\ IsOk(Other)
    /\ Data(Self) # Data(Other)

\* C10: MapErr on an ok instance does not apply fn and returns an ok outcome
\* holding the receiver's data; on an error instance it applies fn to the
\* receiver's message and returns an error-state outcome carrying the mapped
\* error.
C10_MapErr ==
    last.op = "MapErr" =>
        IF IsOk(Self)
            THEN /\ calls = <<>>
                 /\ IsOk(ret)
                 /\ Data(ret) = Data(Self)
            ELSE /\ calls = <<Message(Self)>>
                 /\ IsErr(ret)
                 /\ Message(ret) = ApplyFn(last.fn, Message(Self))

====
